---- MODULE Spec2Model ----
(***************************************************************************)
(* The request pipeline of app.js: the app.use chain in declaration order, *)
(* one action per middleware, with the session store, the user collection  *)
(* and the images directory as the state shared between requests.          *)
(* Requests are handled one after the other; each one walks the chain.     *)
(* Both bootstraps in app.js declare the same chain; line numbers refer to  *)
(* the first one (lines 1-156).                                            *)
(***************************************************************************)
EXTENDS Integers, Sequences, FiniteSets, TLC

\* ------------------------------------------------------------- bounds
\* Number of requests the server receives in one behaviour; also the clock.
MaxRequests == 3

\* ------------------------------------------------------------- values
Methods == {"GET", "POST"}
Paths == {"/", "/admin/add-product", "/login", "/debug-session",
          "/css/main.css", "/images/1-a.png"}
UserIds == {"u1"}
NoUser == "none"
NoErr == "none"
Undefined == "undefined"

MimeTypes == {"image/png", "image/jpg", "image/jpeg", "image/gif"}
NoUpload == [field |-> "none", mimetype |-> "none", originalname |-> "none"]
Uploads ==
    {NoUpload}
    \cup [field : {"image"}, mimetype : MimeTypes, originalname : {"a.png"}]
    \cup [field : {"avatar"}, mimetype : {"image/png"}, originalname : {"a.png"}]

NoFile == [filename |-> <<0, "none">>, mimetype |-> "none"]

\* req.session when the session middleware has not run: sid 0.
NoSession == [sid |-> 0, csrfSecret |-> 0, isLoggedIn |-> Undefined, user |-> NoUser]

NoRequest == [method |-> "GET", path |-> "/", cookie |-> 0, token |-> 0,
              upload |-> NoUpload]
NoLocals == [isAuthenticated |-> Undefined, csrfToken |-> 0]
NoResponse == [status |-> 0, handler |-> "none", setCookie |-> 0,
               isAuthenticated |-> Undefined, body |-> NoSession]

Range(s) == {s[i] : i \in 1..Len(s)}

VARIABLES
    pc,          \* the layer about to run for the request in flight, or idle/lookup/done
    req,         \* the request as the client sent it
    session,     \* req.session
    loaded,      \* req.session as the session middleware produced it (its hash)
    reqUser,     \* req.user
    reqFile,     \* req.file
    locals,      \* res.locals
    res,         \* the response sent
    err,         \* the error passed to next(err), if any
    forwarded,   \* number of next(err) calls made for this request
    lookup,      \* how User.findById settled: none, pending, found, notfound, rejected
    userNext,    \* number of next calls the user middleware made
    executed,    \* layers that ran for this request, in order
    store,       \* the sessions collection: sid -> session
    users,       \* ids of the User documents that exist
    images,      \* file names present in the images directory
    now,         \* clock: number of requests received
    nextSid,     \* next fresh session id
    nextSecret   \* next fresh csrf secret

vars == <<pc, req, session, loaded, reqUser, reqFile, locals, res, err, forwarded,
          lookup, userNext, executed, store, users, images, now, nextSid, nextSecret>>


Sids == 1..MaxRequests

\* ------------------------------------------------------------ the chain
\* Variant: the user middleware declared ahead of csrfProtection.
StackUserBeforeCsrf ==
    << "helmet", "compression", "morgan", "bodyParser", "multer",
       "staticPublic", "staticImages", "session", "userAttach", "csrf", "flash",
       "setLocals", "adminRoutes", "shopRoutes",
       "authRoutes", "get404", "errorHandler", "debugSession" >>

\* Variant: the debug route declared ahead of get404.
StackDebugBeforeGet404 ==
    << "helmet", "compression", "morgan", "bodyParser", "multer",
       "staticPublic", "staticImages", "session", "csrf", "flash",
       "setLocals", "userAttach", "adminRoutes", "shopRoutes",
       "authRoutes", "debugSession", "get404", "errorHandler" >>

\* app.use / app.get in declaration order.
Stack == << "helmet", "compression", "morgan", "bodyParser", "multer",
            "staticPublic", "staticImages", "session", "csrf", "flash",
            "setLocals", "userAttach", "adminRoutes", "shopRoutes",
            "authRoutes", "get404", "errorHandler", "debugSession" >>

IndexOf(layer) == CHOOSE i \in 1..Len(Stack) : Stack[i] = layer

ImagesMount == {"/images/1-a.png"}
AdminMount == {"/admin/add-product"}

\* Whether express hands the request to a layer: error middleware (four
\* arguments) only runs with an error, the others only without; a mounted
\* layer only under its mount path; a route only for its method and path.
LayerMatches(layer, r, e) ==
    IF e # NoErr THEN layer = "errorHandler"
    ELSE CASE layer = "errorHandler" -> FALSE
           [] layer = "staticImages" -> r.path \in ImagesMount
           [] layer = "adminRoutes"  -> r.path \in AdminMount
           [] layer = "debugSession" -> r.method = "GET" /\ r.path = "/debug-session"
           [] OTHER -> TRUE

\* next() / next(err) called by the layer at position i.
NextLayerFrom(i, r, e) ==
    LET later == {j \in (i+1)..Len(Stack) : LayerMatches(Stack[j], r, e)}
    IN  IF later = {} THEN "finalhandler"
        ELSE Stack[CHOOSE j \in later : \A k \in later : j <= k]

NextLayer(layer, r, e) == NextLayerFrom(IndexOf(layer), r, e)

\* ------------------------------------------------------------ helpers
\* Variant: a filter that accepts every type.
fileFilterAcceptsAll(mimetype) == TRUE

\* multer's fileFilter: cb(null, true) for the three image types, else cb(null, false).
fileFilter(mimetype) ==
    mimetype = "image/png" \/ mimetype = "image/jpg" \/ mimetype = "image/jpeg"

\* diskStorage.filename: the timestamp, then the original name.
Filename(t, originalname) == <<t, originalname>>

\* The file a path under /images names.
ImageOfPath(path) == IF path = "/images/1-a.png" THEN <<1, "a.png">> ELSE <<0, "none">>

\* Files below public/.
PublicFiles == {"/css/main.css"}

\* req.session?.isLoggedIn || false
IsAuthenticated(s) ==
    IF s.sid = 0 THEN "false"
    ELSE IF s.isLoggedIn = "true" THEN "true" ELSE "false"

\* session({ saveUninitialized: false, resave: false, cookie: { maxAge } })
SaveUninitialized == FALSE
CookieHasExpiry == TRUE

\* Variant: the cookie is set for existing sessions only.
ShouldSetCookieExistingOnly(cookieId, s, orig) ==
    s.sid # 0 /\ cookieId = s.sid /\ s # orig

\* express-session, when the headers are written: a new session gets its
\* cookie when it is to be saved, an existing one when its cookie expires
\* and the session changed.
ShouldSetCookie(cookieId, s, orig) ==
    /\ s.sid # 0
    /\ IF cookieId # s.sid THEN SaveUninitialized \/ s # orig
       ELSE CookieHasExpiry /\ s # orig

\* express-session, when the response ends: store.set for a changed session.
ShouldSave(cookieId, s, orig) ==
    /\ s.sid # 0
    /\ IF cookieId # s.sid THEN SaveUninitialized \/ s # orig
       ELSE s # orig

\* csurf: the token made from a secret, and its verification.
TokensCreate(secret) == secret
TokensVerify(secret, token) == token # 0 /\ token = TokensCreate(secret)
IgnoredMethods == {"GET", "HEAD", "OPTIONS"}

\* csurf's verdict for a request: the error it forwards, if any.
CsrfVerdict(method, secret, token) ==
    IF method \notin IgnoredMethods /\ ~TokensVerify(secret, token)
    THEN "EBADCSRFTOKEN" ELSE NoErr

\* Variant: a missing user is forwarded as an error.
ThenHandlerRaisesOnNull(user) ==
    IF user = NoUser THEN [reqUser |-> NoUser, err |-> "UserNotFound", calls |-> 1]
    ELSE [reqUser |-> user, err |-> NoErr, calls |-> 1]

\* User.findById(...).then((user) => ...): what is attached, what is forwarded.
ThenHandler(user) ==
    IF user = NoUser THEN [reqUser |-> NoUser, err |-> NoErr, calls |-> 1]
    ELSE [reqUser |-> user, err |-> NoErr, calls |-> 1]

\* Variant: the rejection is swallowed and the chain goes on.
CatchHandlerSwallows(e) == [reqUser |-> NoUser, err |-> NoErr, calls |-> 1]

\* User.findById(...).catch((err) => next(new Error(err)))
CatchHandler(e) == [reqUser |-> NoUser, err |-> e, calls |-> 1]

StoredSids == {s \in Sids : store[s].sid # 0}
IssuedTokens == {TokensCreate(store[s].csrfSecret) : s \in StoredSids}

\* A layer calls next() and the chain goes on.
Pass(layer) ==
    /\ pc' = NextLayer(layer, req, NoErr)
    /\ executed' = Append(executed, layer)

\* A layer calls next(e).
Fail(layer, e) ==
    /\ pc' = NextLayer(layer, req, e)
    /\ executed' = Append(executed, layer)
    /\ err' = e
    /\ forwarded' = forwarded + 1

\* A layer ends the response; express-session then sets the cookie and saves.
EndResponse(layer, s, status, isAuth, body) ==
    /\ pc' = "done"
    /\ executed' = Append(executed, layer)
    /\ session' = s
    /\ res' = [status |-> status, handler |-> layer,
               setCookie |-> IF ShouldSetCookie(req.cookie, s, loaded) THEN s.sid ELSE 0,
               isAuthenticated |-> isAuth, body |-> body]
    /\ store' = IF ShouldSave(req.cookie, s, loaded)
                THEN [store EXCEPT ![s.sid] = s] ELSE store

\* ------------------------------------------------------------ initial state
Init ==
    /\ pc = "idle"
    /\ req = NoRequest
    /\ session = NoSession
    /\ loaded = NoSession
    /\ reqUser = NoUser
    /\ reqFile = NoFile
    /\ locals = NoLocals
    /\ res = NoResponse
    /\ err = NoErr
    /\ forwarded = 0
    /\ lookup = "none"
    /\ userNext = 0
    /\ executed = <<>>
    /\ store = [s \in Sids |-> NoSession]
    /\ users = UserIds
    /\ images = {}
    /\ now = 0
    /\ nextSid = 1
    /\ nextSecret = 1

\* ------------------------------------------------------------ actions
\* A client sends a request: with or without the cookie of a stored session,
\* with or without a token some response has carried, and (POST) an upload.
Receive ==
    /\ pc \in {"idle", "done"}
    /\ now < MaxRequests
    /\ \E m \in Methods, p \in Paths, c \in {0} \cup StoredSids,
          t \in {0} \cup IssuedTokens, u \in Uploads :
          /\ m = "GET" => (u = NoUpload /\ t = 0)
          /\ req' = [method |-> m, path |-> p, cookie |-> c, token |-> t, upload |-> u]
    /\ now' = now + 1
    /\ pc' = Stack[1]
    /\ session' = NoSession
    /\ loaded' = NoSession
    /\ reqUser' = NoUser
    /\ reqFile' = NoFile
    /\ locals' = NoLocals
    /\ res' = NoResponse
    /\ err' = NoErr
    /\ forwarded' = 0
    /\ lookup' = "none"
    /\ userNext' = 0
    /\ executed' = <<>>
    /\ UNCHANGED <<store, users, images, nextSid, nextSecret>>

\* app.use(helmet())
Helmet ==
    /\ pc = "helmet"
    /\ Pass("helmet")
    /\ UNCHANGED <<req, session, loaded, reqUser, reqFile, locals, res, err, forwarded,
                   lookup, userNext, store, users, images, now, nextSid, nextSecret>>

\* app.use(compression())
Compression ==
    /\ pc = "compression"
    /\ Pass("compression")
    /\ UNCHANGED <<req, session, loaded, reqUser, reqFile, locals, res, err, forwarded,
                   lookup, userNext, store, users, images, now, nextSid, nextSecret>>

\* app.use(morgan("combined", ...))
Morgan ==
    /\ pc = "morgan"
    /\ Pass("morgan")
    /\ UNCHANGED <<req, session, loaded, reqUser, reqFile, locals, res, err, forwarded,
                   lookup, userNext, store, users, images, now, nextSid, nextSecret>>

\* app.use(bodyParser.urlencoded({ extended: false }))
BodyParser ==
    /\ pc = "bodyParser"
    /\ Pass("bodyParser")
    /\ UNCHANGED <<req, session, loaded, reqUser, reqFile, locals, res, err, forwarded,
                   lookup, userNext, store, users, images, now, nextSid, nextSecret>>

\* app.use(multer({ storage, fileFilter }).single("image")): a file in another
\* field is an error; a file the filter refuses is skipped; an accepted file
\* is written to images/ and attached as req.file.
Multer ==
    /\ pc = "multer"
    /\ IF req.upload = NoUpload
       THEN /\ Pass("multer")
            /\ UNCHANGED <<reqFile, images, err, forwarded>>
       ELSE IF req.upload.field # "image"
       THEN /\ Fail("multer", "MulterError")
            /\ UNCHANGED <<reqFile, images>>
       ELSE IF fileFilter(req.upload.mimetype)
       THEN /\ Pass("multer")
            /\ images' = images \cup {Filename(now, req.upload.originalname)}
            /\ reqFile' = [filename |-> Filename(now, req.upload.originalname),
                           mimetype |-> req.upload.mimetype]
            /\ UNCHANGED <<err, forwarded>>
       ELSE /\ Pass("multer")
            /\ UNCHANGED <<reqFile, images, err, forwarded>>
    /\ UNCHANGED <<req, session, loaded, reqUser, locals, res,
                   lookup, userNext, store, users, now, nextSid, nextSecret>>

\* app.use(express.static("public")): answers GET for a file that exists.
StaticPublic ==
    /\ pc = "staticPublic"
    /\ IF req.method = "GET" /\ req.path \in PublicFiles
       THEN EndResponse("staticPublic", session, 200, Undefined, NoSession)
       ELSE Pass("staticPublic") /\ UNCHANGED <<session, res, store>>
    /\ UNCHANGED <<req, loaded, reqUser, reqFile, locals, err, forwarded,
                   lookup, userNext, users, images, now, nextSid, nextSecret>>

\* app.use("/images", express.static("images"))
StaticImages ==
    /\ pc = "staticImages"
    /\ IF req.method = "GET" /\ ImageOfPath(req.path) \in images
       THEN EndResponse("staticImages", session, 200, Undefined, NoSession)
       ELSE Pass("staticImages") /\ UNCHANGED <<session, res, store>>
    /\ UNCHANGED <<req, loaded, reqUser, reqFile, locals, err, forwarded,
                   lookup, userNext, users, images, now, nextSid, nextSecret>>

\* app.use(session({...})): the stored session of the cookie, or a new one.
Session ==
    /\ pc = "session"
    /\ IF req.cookie \in StoredSids
       THEN /\ session' = store[req.cookie]
            /\ UNCHANGED nextSid
       ELSE /\ session' = [NoSession EXCEPT !.sid = nextSid]
            /\ nextSid' = nextSid + 1
    /\ loaded' = session'
    /\ Pass("session")
    /\ UNCHANGED <<req, reqUser, reqFile, locals, res, err, forwarded,
                   lookup, userNext, store, users, images, now, nextSecret>>

\* app.use(csrfProtection): a secret is put in the session when it has none,
\* then the token of a state-changing request is verified.
Csrf ==
    /\ pc = "csrf"
    /\ LET secret == IF session.csrfSecret = 0 THEN nextSecret ELSE session.csrfSecret
           verdict == CsrfVerdict(req.method, secret, req.token)
       IN  /\ session' = [session EXCEPT !.csrfSecret = secret]
           /\ nextSecret' = IF session.csrfSecret = 0 THEN nextSecret + 1 ELSE nextSecret
           /\ IF verdict = NoErr
              THEN Pass("csrf") /\ UNCHANGED <<err, forwarded>>
              ELSE Fail("csrf", verdict)
    /\ UNCHANGED <<req, loaded, reqUser, reqFile, locals, res,
                   lookup, userNext, store, users, images, now, nextSid>>

\* app.use(flash())
Flash ==
    /\ pc = "flash"
    /\ Pass("flash")
    /\ UNCHANGED <<req, session, loaded, reqUser, reqFile, locals, res, err, forwarded,
                   lookup, userNext, store, users, images, now, nextSid, nextSecret>>

\* res.locals.isAuthenticated and res.locals.csrfToken
SetLocals ==
    /\ pc = "setLocals"
    /\ locals' = [isAuthenticated |-> IsAuthenticated(session),
                  csrfToken |-> TokensCreate(session.csrfSecret)]
    /\ Pass("setLocals")
    /\ UNCHANGED <<req, session, loaded, reqUser, reqFile, res, err, forwarded,
                   lookup, userNext, store, users, images, now, nextSid, nextSecret>>

\* The user middleware: no session.user, next(); else User.findById is pending.
UserAttach ==
    /\ pc = "userAttach"
    /\ IF session.user = NoUser
       THEN Pass("userAttach") /\ userNext' = 1 /\ UNCHANGED lookup
       ELSE /\ pc' = "lookup"
            /\ executed' = Append(executed, "userAttach")
            /\ lookup' = "pending"
            /\ UNCHANGED userNext
    /\ UNCHANGED <<req, session, loaded, reqUser, reqFile, locals, res, err, forwarded,
                   store, users, images, now, nextSid, nextSecret>>

\* The promise settled: what the handler attached and forwarded.
Settle(o) ==
    /\ reqUser' = o.reqUser
    /\ err' = o.err
    /\ forwarded' = IF o.err # NoErr THEN forwarded + o.calls ELSE forwarded
    /\ userNext' = userNext + o.calls
    /\ pc' = NextLayer("userAttach", req, o.err)
    /\ UNCHANGED <<req, session, loaded, reqFile, locals, res, executed,
                   store, users, images, now, nextSid, nextSecret>>

\* findById resolves: with the user, or with null when it does not exist.
LookupResolve ==
    /\ pc = "lookup"
    /\ lookup' = IF session.user \in users THEN "found" ELSE "notfound"
    /\ Settle(ThenHandler(IF session.user \in users THEN session.user ELSE NoUser))

\* findById rejects: the database failed.
LookupReject ==
    /\ pc = "lookup"
    /\ lookup' = "rejected"
    /\ Settle(CatchHandler("LookupError"))

\* A User document is removed from the collection.
DeleteUser ==
    /\ \E u \in users : users' = users \ {u}
    /\ UNCHANGED <<pc, req, session, loaded, reqUser, reqFile, locals, res, err,
                   forwarded, lookup, userNext, executed, store, images, now,
                   nextSid, nextSecret>>

\* The routes of the three routers.
AdminRoute(r) == r.path \in AdminMount
ShopRoute(r) == r.method = "GET" /\ r.path = "/"
AuthRoute(r) == r.path = "/login"

\* app.use("/admin", adminRoutes): behind the login gate.
AdminRoutes ==
    /\ pc = "adminRoutes"
    /\ IF AdminRoute(req)
       THEN IF session.isLoggedIn = "true"
            THEN EndResponse("adminRoutes", session, 200, locals.isAuthenticated, NoSession)
            ELSE EndResponse("adminRoutes", session, 302, locals.isAuthenticated, NoSession)
       ELSE Pass("adminRoutes") /\ UNCHANGED <<session, res, store>>
    /\ UNCHANGED <<req, loaded, reqUser, reqFile, locals, err, forwarded,
                   lookup, userNext, users, images, now, nextSid, nextSecret>>

\* app.use(shopRoutes)
ShopRoutes ==
    /\ pc = "shopRoutes"
    /\ IF ShopRoute(req)
       THEN EndResponse("shopRoutes", session, 200, locals.isAuthenticated, NoSession)
       ELSE Pass("shopRoutes") /\ UNCHANGED <<session, res, store>>
    /\ UNCHANGED <<req, loaded, reqUser, reqFile, locals, err, forwarded,
                   lookup, userNext, users, images, now, nextSid, nextSecret>>

\* app.use(authRoutes): the login page, and the login itself.
AuthRoutes ==
    /\ pc = "authRoutes"
    /\ IF AuthRoute(req) /\ req.method = "GET"
       THEN EndResponse("authRoutes", session, 200, locals.isAuthenticated, NoSession)
       ELSE IF AuthRoute(req) /\ req.method = "POST"
       THEN \E u \in UserIds :
              EndResponse("authRoutes",
                          IF u \in users
                          THEN [session EXCEPT !.isLoggedIn = "true", !.user = u]
                          ELSE session,
                          302, locals.isAuthenticated, NoSession)
       ELSE Pass("authRoutes") /\ UNCHANGED <<session, res, store>>
    /\ UNCHANGED <<req, loaded, reqUser, reqFile, locals, err, forwarded,
                   lookup, userNext, users, images, now, nextSid, nextSecret>>

\* app.use(errorController.get404)
Get404 == EndResponse("get404", session, 404, locals.isAuthenticated, NoSession)

\* app.get("/debug-session", ...): res.send(req.session)
DebugSession == EndResponse("debugSession", session, 200, Undefined, session)

\* get404 and the debug route: each answers whatever express hands it and
\* never calls next. The debug route is declared last, after get404 and the
\* error middleware.
Answer ==
    /\ pc \in {"get404", "debugSession"}
    /\ IF pc = "get404" THEN Get404 ELSE DebugSession
    /\ UNCHANGED <<req, loaded, reqUser, reqFile, locals, err, forwarded,
                   lookup, userNext, users, images, now, nextSid, nextSecret>>

\* The error middleware: res.status(500).render("500", { isAuthenticated })
ErrorHandler ==
    /\ pc = "errorHandler"
    /\ EndResponse("errorHandler", session, 500, IsAuthenticated(session), NoSession)
    /\ UNCHANGED <<req, loaded, reqUser, reqFile, locals, err, forwarded,
                   lookup, userNext, users, images, now, nextSid, nextSecret>>

Next ==
    \/ Receive \/ Helmet \/ Compression \/ Morgan \/ BodyParser \/ Multer
    \/ StaticPublic \/ StaticImages \/ Session \/ Csrf \/ Flash \/ SetLocals
    \/ UserAttach \/ LookupResolve \/ LookupReject \/ DeleteUser
    \/ AdminRoutes \/ ShopRoutes \/ AuthRoutes \/ Answer \/ ErrorHandler

Spec == Init /\ [][Next]_vars

TypeOK ==
    /\ pc \in Range(Stack) \cup {"idle", "lookup", "done"}
    /\ now \in 0..MaxRequests
    /\ forwarded \in 0..1
    /\ userNext \in 0..1
    /\ lookup \in {"none", "pending", "found", "notfound", "rejected"}

\* ------------------------------------------------------------ properties
Ran(layer) == layer \in Range(executed)
Routers == {"adminRoutes", "shopRoutes", "authRoutes"}
AfterCsrf == {"flash", "setLocals", "userAttach"} \cup Routers \cup {"get404"}
AllowedTypes == {"image/png", "image/jpg", "image/jpeg"}

\* The request in flight changes state and its token does not verify
\* against the secret of its session.
CsrfRejected ==
    /\ Ran("csrf")
    /\ req.method = "POST"
    /\ ~(req.token # 0 /\ req.token = session.csrfSecret)

\* C1: a state-changing request that reaches the CSRF stage without a valid
\* token is answered with a 4xx status, and no stage declared after the CSRF
\* stage (flash, locals, user attachment, routers, 404 handler) runs for it.
C1_CsrfRejectionIsClientError ==
    (pc = "done" /\ CsrfRejected) =>
        /\ res.status \in 400..499
        /\ Range(executed) \cap AfterCsrf = {}

\* C2: when the lookup of session.user resolves with no user, req.user stays
\* unset, no error is forwarded, next is called exactly once, and the request
\* goes on to route dispatch as an anonymous one does.
C2_DanglingUserIsAnonymous ==
    lookup = "notfound" =>
        /\ reqUser = NoUser
        /\ err = NoErr
        /\ forwarded = 0
        /\ userNext = 1
        /\ ~Ran("errorHandler")
        /\ pc \in Routers \cup {"get404", "done"}
        /\ executed[Len(executed)] = "userAttach"
              => pc = NextLayer("userAttach", req, NoErr)
        /\ pc = "done" => res.handler \in Routers \cup {"get404"}

C2_Witness ==
    /\ lookup = "notfound"
    /\ pc = "done"
    /\ session.user # NoUser
    /\ session.user \notin users

\* C3: an upload under field image whose type is none of png, jpg, jpeg is
\* refused without an error: no file is written, none is attached, and the
\* request goes to the next stage; a file of the three types is accepted,
\* written and attached.
C3_FileFilter ==
    (Ran("multer") /\ req.upload.field = "image") =>
        IF req.upload.mimetype \in AllowedTypes
        THEN /\ reqFile.filename = Filename(now, req.upload.originalname)
             /\ reqFile.filename \in images
        ELSE /\ reqFile = NoFile
             /\ \A f \in images : f[1] # now
             /\ err # "MulterError"
             /\ executed[Len(executed)] = "multer" =>
                    (err = NoErr /\ pc = "staticPublic")

C3_Witness ==
    /\ req.upload.field = "image"
    /\ req.upload.mimetype = "image/gif"
    /\ pc = "done"
    /\ res.status = 302
    /\ images = {}

StageOf(layer) ==
    CASE layer \in {"helmet", "compression", "morgan"} -> "received"
      [] layer \in {"bodyParser", "multer"} -> "parsed"
      [] layer = "session" -> "session-resolved"
      [] layer = "userAttach" -> "user-attached"
      [] layer = "csrf" -> "csrf-checked"
      [] layer \in Routers -> "routed"
      [] layer \in {"get404", "errorHandler", "debugSession"} -> "response"
      [] OTHER -> "-"

StatedOrder == << "received", "parsed", "session-resolved", "user-attached",
                  "csrf-checked", "routed", "response" >>
ActualOrder == << "received", "parsed", "session-resolved", "csrf-checked",
                  "user-attached", "routed", "response" >>

Position(order, stage) == CHOOSE i \in 1..Len(order) : order[i] = stage

\* The layers that ran did so in the given order of stages.
InOrder(order) ==
    \A i, j \in 1..Len(executed) :
        (i < j /\ StageOf(executed[i]) # "-" /\ StageOf(executed[j]) # "-") =>
            Position(order, StageOf(executed[i])) <= Position(order, StageOf(executed[j]))

\* No layer runs twice for a request.
NoReentry ==
    \A i, j \in 1..Len(executed) : i # j => executed[i] # executed[j]

C6_DebugSessionAnswers ==
    (pc = "done" /\ req.method = "GET" /\ req.path = "/debug-session") =>
        /\ res.handler = "debugSession"
        /\ res.body = session

RouterMatched(r) == AdminRoute(r) \/ ShopRoute(r) \/ AuthRoute(r)
ReachedDispatch == Range(executed) \cap Routers # {}

C8_LookupFailureIs500 ==
    /\ lookup = "rejected" =>
          /\ forwarded = 1
          /\ userNext = 1
          /\ Range(executed) \cap (Routers \cup {"get404"}) = {}
          /\ pc \in {"errorHandler", "done"}
          /\ pc = "done" => res.handler = "errorHandler"
    /\ res.handler = "errorHandler" =>
          /\ res.status = 500
          /\ session.sid # 0 =>
                res.isAuthenticated = (IF session.isLoggedIn = "true" THEN "true" ELSE "false")
          /\ session.sid = 0 => res.isAuthenticated = "false"

C8_Witness ==
    /\ lookup = "rejected"
    /\ pc = "done"
    /\ res.status = 500
    /\ res.isAuthenticated = "true"

\* C9: no request the CSRF stage rejects has written a file to the images
\* directory.
C9_NoUploadBeforeCsrf ==
    (pc = "done" /\ CsrfRejected) => \A f \in images : f[1] # now

\* C10: at route dispatch, res.locals.isAuthenticated true implies that
\* req.user is set.
C10_AuthenticatedHasUser ==
    (pc \in Routers /\ locals.isAuthenticated = "true") => reqUser # NoUser

====
